---------------------------- MODULE Spec2Model ----------------------------
(***************************************************************************)
(* Model of the Fastmail Calendar MCP server (src/unnamed/part_002, the    *)
(* latest revision of src/index.ts): the lazily bootstrapped CalDAV        *)
(* session, the tool-call handler with its five operations, the locator    *)
(* loop of update_event and the in-place iCalendar patch step.             *)
(*                                                                         *)
(* Texts (iCalendar bodies, argument values) are sequences of tokens.  A   *)
(* token is a string: the property prefixes the code searches for          *)
(* ("SUMMARY:", "DESCRIPTION:", ...), the line terminators "CR" and "LF",  *)
(* the replacement pattern "$&" of String.prototype.replace, and plain     *)
(* text tokens.  An occurrence of a property prefix inside a text is the   *)
(* occurrence of its token, wherever in a line it stands.                  *)
(***************************************************************************)
EXTENDS Integers, Sequences, FiniteSets, TLC

VARIABLES
    davClient,    \* part_002:39   the cached client handle, NULL or CLIENT
    calendars,    \* part_002:40   the cached calendar list (sequence of urls)
    store,        \* the remote CalDAV store: object url -> [etag, data]
    nextEtag,     \* the remote CalDAV store: the etag it hands out next
    now,          \* the process clock read by Date.now() / new Date()
    pc,           \* per handler invocation: the await point it is suspended at
    req,          \* per handler invocation: request.params (name, arguments)
    loc,          \* per handler invocation: its local variables
    result,       \* per handler invocation: the value returned to the transport
    raised,       \* per handler invocation: message of the failure thrown, or NoError
    net,          \* per handler invocation: CalDAV requests issued, in order
    handshakes,   \* number of createDAVClient calls issued by the process
    started,      \* number of tool calls received so far
    faults,       \* number of CalDAV requests the environment has failed so far
    pBody,        \* harness: the body handed to the patch step, or built from a draft
    pPatch,       \* harness: the field bundle of the patch, or of the draft
    pOnce,        \* patch harness: outcome of the patch step on pBody
    pTwice,       \* patch harness: outcome of the patch step on pOnce's text
    pStage,       \* harness: "off"; "input", "once", "twice"; "draft", "built"
    env,          \* process start-up: process.argv[1] and the two environment variables
    proc          \* process start-up: where main stands, exit code, error stream

sysVars == <<davClient, calendars, store, nextEtag, now, pc, req, loc, result, raised,
             net, handshakes, started, faults>>
patchVars == <<pBody, pPatch, pOnce, pTwice, pStage>>
bootVars == <<env, proc>>
vars == <<davClient, calendars, store, nextEtag, now, pc, req, loc, result, raised,
          net, handshakes, started, faults, pBody, pPatch, pOnce, pTwice, pStage,
          env, proc>>

-----------------------------------------------------------------------------
(* Bounds of the model. *)

\* Tool calls received over the life of the process.
MaxCalls == 2
\* CalDAV requests the environment may fail.
MaxFaults == 1
\* Last value of the millisecond clock.
MaxClock == 1

-----------------------------------------------------------------------------
(* Texts. *)

CR == "CR"
LF == "LF"
AMP == "$&"

\* JavaScript's `.` matches every character but a line terminator.
IsLineTerminator(t) == t = CR \/ t = LF

SubText(text, a, b) == [k \in 1..(b - a + 1) |-> text[a + k - 1]]

\* String.prototype.includes(key)
Includes(text, key) == \E i \in 1..Len(text) : text[i] = key

\* The end of the match of /key.*\r?\n/ that starts at position i, 0 if the
\* pattern does not match there: `.*` runs to the first line terminator, a
\* "\r" must be followed by "\n".
MatchEnd(text, key, i) ==
    IF text[i] # key THEN 0
    ELSE LET stops == {j \in (i + 1)..Len(text) : IsLineTerminator(text[j])}
         IN  IF stops = {} THEN 0
             ELSE LET j == CHOOSE s \in stops : \A s2 \in stops : s <= s2
                  IN  IF text[j] = LF THEN j
                      ELSE IF j + 1 <= Len(text) /\ text[j + 1] = LF THEN j + 1
                      ELSE 0

\* The leftmost position at which /key.*\r?\n/ matches, 0 if none.
FirstMatch(text, key) ==
    LET hits == {i \in 1..Len(text) : MatchEnd(text, key, i) > 0}
    IN  IF hits = {} THEN 0 ELSE CHOOSE i \in hits : \A i2 \in hits : i <= i2

\* The replacement string of String.prototype.replace: "$&" stands for the
\* matched text, wherever in the replacement string it occurs.
RECURSIVE Expand(_, _)
Expand(repl, matched) ==
    IF repl = <<>> THEN <<>>
    ELSE (IF Head(repl) = AMP THEN matched ELSE <<Head(repl)>>)
         \o Expand(Tail(repl), matched)

\* A replace that appends the new line when the pattern matches nowhere.
ReplaceOrAppend(text, key, repl) ==
    LET i == FirstMatch(text, key)
    IN  IF i = 0 THEN text \o Expand(repl, <<>>)
        ELSE LET e == MatchEnd(text, key, i)
             IN  SubText(text, 1, i - 1)
                 \o Expand(repl, SubText(text, i, e))
                 \o SubText(text, e + 1, Len(text))

\* text.replace(/key.*\r?\n/, repl): the first match only; no match, no change.
\* The text, the position of the match and its end are each a value bound
\* once (t, i, e), so that none is computed again where it is used.
ReplaceFirst(text, key, repl) ==
    LET Replaced(t, i, e) ==
            SubText(t, 1, i - 1) \o Expand(repl, SubText(t, i, e)) \o SubText(t, e + 1, Len(t))
        ReplacedAt(t, i) ==
            IF i = 0 THEN t
            ELSE CHOOSE out \in {Replaced(t, i, e) : e \in {MatchEnd(t, key, i)}} : TRUE
        ReplacedIn(t) == CHOOSE out \in {ReplacedAt(t, i) : i \in {FirstMatch(t, key)}} : TRUE
    IN  CHOOSE out \in {ReplacedIn(t) : t \in {text}} : TRUE



-----------------------------------------------------------------------------
(* Dates. *)

\* An optional argument: <<>> when the argument bag does not hold it
\* (undefined), <<v>> when it holds the value v.
Absent == <<>>
Some(v) == <<v>>
IsPresent(o) == o # <<>>
ValueOf(o) == o[1]

\* Date.getTime() of an invalid date.
NaN == -1

\* The first instant of the year 10000 (253402300800000 ms after the epoch),
\* with the millennia between the first minute of 1970 and it left out of the
\* numbering: Y10K + k is the instant k ms into the year 10000.
Y10K == 100000

\* new Date(text).getTime(), in milliseconds since the epoch, for the date
\* texts the model hands in; every other text is not a date.
ParseDate(text) ==
    CASE text = "1970-01-01T00:00:00Z" -> 0
      [] text = "1970-01-01T00:00:01Z" -> 1000
      [] text = "1970-01-01T00:00:01.500Z" -> 1500
      [] text = "1970-01-01T00:00:02Z" -> 2000
      [] text = "+010000-01-01T00:00:00Z" -> Y10K
      [] OTHER -> NaN

Digit(d) == <<"0", "1", "2", "3", "4", "5", "6", "7", "8", "9">>[d + 1]

IsDigit(t) == t \in {"0", "1", "2", "3", "4", "5", "6", "7", "8", "9"}

\* Date.prototype.toISOString() for an instant within the first minute of
\* the epoch, YYYY-MM-DDTHH:mm:ss.sssZ, and for one within the first minute of
\* the year 10000: a year outside 0..9999 is written with a sign and six
\* digits.
ToISOString(ms) ==
    (IF ms >= Y10K THEN <<"+", "010000">> ELSE <<"1970">>)
    \o <<"-", "01", "-", "01", "T", "00", ":", "00", ":",
         Digit((ms \div 10000) % 10), Digit((ms \div 1000) % 10), ".",
         Digit((ms \div 100) % 10), Digit((ms \div 10) % 10), Digit(ms % 10), "Z">>

\* text.replace(/\.\d{3}/, ""): the first "." that three digits follow.
DropMillis(text) ==
    LET hits == {i \in 1..(Len(text) - 3) :
                    /\ text[i] = "."
                    /\ \A k \in 1..3 : IsDigit(text[i + k])}
    IN  IF hits = {} THEN text
        ELSE LET i == CHOOSE h \in hits : \A h2 \in hits : h <= h2
             IN  SubText(text, 1, i - 1) \o SubText(text, i + 4, Len(text))

IsNotSeparator(t) == t # "-" /\ t # ":"

\* formatICalDate(date)
formatICalDate(ms) == DropMillis(SelectSeq(ToISOString(ms), IsNotSeparator))

-----------------------------------------------------------------------------
(* The patch step of update_event. *)

NoError == <<>>

\* `if (summary)`, `description ? ... : ""`: the text argument is supplied
\* and is not the empty string.
Truthy(o) == IsPresent(o) /\ ValueOf(o) # <<>>

\* `if (startDate)`: the date argument is supplied and is not the empty string.
TruthyDate(o) == IsPresent(o) /\ ValueOf(o) # ""

\* if (summary) updatedIcal = updatedIcal.replace(/SUMMARY:.*\r?\n/, ...)
PatchSummary(text, summary) ==
    IF Truthy(summary)
    THEN ReplaceFirst(text, "SUMMARY:", <<"SUMMARY:">> \o ValueOf(summary) \o <<CR, LF>>)
    ELSE text

\* The insert-or-replace of DESCRIPTION and LOCATION: replace the property's
\* own line when the text includes its prefix, else put the new line behind
\* the SUMMARY line ("$&" followed by the new line).
InsertOrReplace(text, key, value) ==
    IF ~IsPresent(value) THEN text
    ELSE IF Includes(text, key)
    THEN ReplaceFirst(text, key, <<key>> \o ValueOf(value) \o <<CR, LF>>)
    ELSE ReplaceFirst(text, "SUMMARY:", <<AMP, key>> \o ValueOf(value) \o <<CR, LF>>)

PatchDescription(text, description) == InsertOrReplace(text, "DESCRIPTION:", description)

PatchLocation(text, location) == InsertOrReplace(text, "LOCATION:", location)

\* if (startDate) { parse, throw when invalid, replace the DTSTART line }
PatchDate(text, key, date) ==
    IF TruthyDate(date)
    THEN ReplaceFirst(text, key, <<key>> \o formatICalDate(ParseDate(ValueOf(date))) \o <<CR, LF>>)
    ELSE text

DateIsInvalid(date) == TruthyDate(date) /\ ParseDate(ValueOf(date)) = NaN

\* A patch step that applies the location before the description.
ApplyPatchLocationFirst(data, args) ==
    LET t3 == PatchDescription(PatchLocation(PatchSummary(data, args.summary),
                                             args.location), args.description)
    IN  IF DateIsInvalid(args.startDate)
        THEN [err |-> <<"Invalid start date: ", ValueOf(args.startDate)>>, text |-> t3]
        ELSE IF DateIsInvalid(args.endDate)
        THEN [err |-> <<"Invalid end date: ", ValueOf(args.endDate)>>,
              text |-> PatchDate(t3, "DTSTART:", args.startDate)]
        ELSE [err |-> NoError,
              text |-> PatchDate(PatchDate(t3, "DTSTART:", args.startDate),
                                 "DTEND:", args.endDate)]

\* The whole patch step: [err, text].  The fields are applied in the order
\* summary, description, location, startDate, endDate; an unparseable date
\* throws at its own step.
ApplyPatch(data, args) ==
    LET t3 == PatchLocation(PatchDescription(PatchSummary(data, args.summary),
                                             args.description), args.location)
    IN  IF DateIsInvalid(args.startDate)
        THEN [err |-> <<"Invalid start date: ", ValueOf(args.startDate)>>, text |-> t3]
        ELSE IF DateIsInvalid(args.endDate)
        THEN [err |-> <<"Invalid end date: ", ValueOf(args.endDate)>>,
              text |-> PatchDate(t3, "DTSTART:", args.startDate)]
        ELSE [err |-> NoError,
              text |-> PatchDate(PatchDate(t3, "DTSTART:", args.startDate),
                                 "DTEND:", args.endDate)]

-----------------------------------------------------------------------------
(* The body create_event builds. *)

\* [ ... ].filter(Boolean).join("\r\n"): the lines that are not empty, with
\* CR LF between consecutive lines and none after the last.
\* The list is a value bound once (l).
RECURSIVE JoinLines(_)
JoinLines(lines) ==
    CHOOSE out \in {IF l = <<>> THEN <<>>
                    ELSE IF Len(l) = 1 THEN l[1]
                    ELSE l[1] \o <<CR, LF>> \o JoinLines(Tail(l)) : l \in {lines}} : TRUE

IsNonEmptyLine(l) == l # <<>>

\* `${Date.now()}@fastmail-mcp`
Uid(ms) == <<Digit((ms \div 10) % 10), Digit(ms % 10), "@fastmail-mcp">>

\* description ? `DESCRIPTION:${description}` : ""
OptionalLine(key, value) ==
    IF Truthy(value) THEN <<key>> \o ValueOf(value) ELSE <<>>

icalString(uid, stamp, start, end, summary, description, location) ==
    JoinLines(SelectSeq(
        << <<"BEGIN:VCALENDAR">>,
           <<"VERSION:2.0">>,
           <<"PRODID:-//Fastmail Calendar MCP//EN">>,
           <<"BEGIN:VEVENT">>,
           <<"UID:">> \o uid,
           <<"DTSTAMP:">> \o formatICalDate(stamp),
           <<"DTSTART:">> \o formatICalDate(start),
           <<"DTEND:">> \o formatICalDate(end),
           <<"SUMMARY:">> \o summary,
           OptionalLine("DESCRIPTION:", description),
           OptionalLine("LOCATION:", location),
           <<"END:VEVENT">>,
           <<"END:VCALENDAR">> >>, IsNonEmptyLine))

-----------------------------------------------------------------------------
(* The patch harness: the patch step applied to a body, and applied again  *)
(* to its own output, for bodies and patches drawn from bounded sets.      *)

\* Values a text field of the patch may carry: undefined, the empty string,
\* a plain text, a text of two lines, a text that holds the replacement
\* pattern "$&", and a text that mentions another property.
TextValues ==
    {Absent, Some(<<>>), Some(<<"n">>), Some(<<"x", LF, "y">>), Some(<<AMP>>),
     Some(<<"LOCATION:", "r">>)}

DateValues ==
    {Absent, Some(""), Some("tomorrow"), Some("1970-01-01T00:00:01.500Z"),
     Some("1970-01-01T00:00:02Z")}

Patches ==
    [summary : TextValues, description : TextValues, location : TextValues,
     startDate : DateValues, endDate : DateValues]

\* A body create_event wrote, without and with DESCRIPTION and LOCATION.
BodyCreated(description, location) ==
    icalString(Uid(0), 0, 0, 1000, <<"s">>, description, location)

\* Bodies as a CalDAV server returns them: the text create_event sent,
\* closed by a line terminator.
BodyPlain == BodyCreated(Absent, Absent) \o <<CR, LF>>
BodyFull == BodyCreated(Some(<<"d">>), Some(<<"l">>)) \o <<CR, LF>>
BodyDescribed == BodyCreated(Some(<<"d">>), Absent) \o <<CR, LF>>
BodyLocated == BodyCreated(Absent, Some(<<"l">>)) \o <<CR, LF>>

\* A body another client wrote: LF line ends, the DESCRIPTION text mentions
\* a location and stands before the LOCATION line.
BodyForeign ==
    <<"BEGIN:VEVENT", LF, "UID:", "u", LF, "DESCRIPTION:", "at", "LOCATION:", "q", LF,
      "SUMMARY:", "s", LF, "LOCATION:", "l", LF, "DTSTART:", "t", LF, "DTEND:", "t", LF,
      "END:VEVENT", LF>>

\* A body without SUMMARY, DTSTART: and DTEND: lines (dates with a TZID).
BodyBare ==
    <<"BEGIN:VEVENT", CR, LF, "UID:", "u", CR, LF, "DTSTART;TZID=Z:", "t", CR, LF,
      "DTEND;TZID=Z:", "t", CR, LF, "END:VEVENT", CR, LF>>

\* A body with a SUMMARY line whose dates carry a TZID.
BodyZoned ==
    <<"BEGIN:VEVENT", CR, LF, "UID:", "u", CR, LF, "DTSTART;TZID=Z:", "t", CR, LF,
      "DTEND;TZID=Z:", "t", CR, LF, "SUMMARY:", "s", CR, LF, "END:VEVENT", CR, LF>>

Bodies ==
    {BodyPlain, BodyFull, BodyDescribed, BodyLocated, BodyForeign, BodyBare, BodyZoned}

NoOutcome == [err |-> NoError, text |-> <<>>]
NoPatch ==
    [summary |-> Absent, description |-> Absent, location |-> Absent,
     startDate |-> Absent, endDate |-> Absent]

PatchOff ==
    /\ pStage = "off"
    /\ pBody = <<>>
    /\ pPatch = NoPatch
    /\ pOnce = NoOutcome
    /\ pTwice = NoOutcome

PatchFirst ==
    /\ pStage = "input"
    /\ pOnce' = ApplyPatch(pBody, pPatch)
    /\ pStage' = "once"
    /\ UNCHANGED <<sysVars, bootVars, pBody, pPatch, pTwice>>

PatchAgain ==
    /\ pStage = "once"
    /\ pOnce.err = NoError
    /\ pTwice' = ApplyPatch(pOnce.text, pPatch)
    /\ pStage' = "twice"
    /\ UNCHANGED <<sysVars, bootVars, pBody, pPatch, pOnce>>

PatchNext == PatchFirst \/ PatchAgain

-----------------------------------------------------------------------------
(* The server process: its state, the CalDAV capability and the requests.  *)

Handlers == {"h1", "h2"}

NULL == "null"
CLIENT == "client"

\* The account's calendars, in the order fetchCalendars returns them.
ServerCalendars ==
    << [url |-> "A/", displayName |-> "Work"],
       [url |-> "B/", displayName |-> "Personal"],
       [url |-> "C/", displayName |-> "Family"],
       [url |-> "D/", displayName |-> "Holidays"] >>

\* An object url is the url of its calendar followed by its file name.
EventUrl == <<"C/", "e1.ics">>
GhostUrl == <<"B/", "ghost.ics">>
BareUrl == <<"A/", "e2.ics">>

CalendarOf(url) == url[1]

\* The objects of one calendar, as fetchCalendarObjects returns them.
ObjectsIn(st, calendarUrl) ==
    {[url |-> u, etag |-> st[u].etag, data |-> st[u].data] :
        u \in {v \in DOMAIN st : CalendarOf(v) = calendarUrl}}

RECURSIVE SetToSeq(_)
SetToSeq(S) ==
    IF S = {} THEN <<>>
    ELSE LET x == CHOOSE y \in S : TRUE IN <<x>> \o SetToSeq(S \ {x})

\* The store's answer to a conditional write or delete (If-Match: etag): the
\* object must exist and carry that etag.
EtagMatches(st, url, etag) == url \in DOMAIN st /\ st[url].etag = etag

NoArgs ==
    [calendarUrl |-> "", eventUrl |-> <<>>, etag |-> -1,
     summary |-> Absent, description |-> Absent, location |-> Absent,
     startDate |-> Absent, endDate |-> Absent]

T0 == "1970-01-01T00:00:00Z"
T1 == "1970-01-01T00:00:01Z"
T2 == "1970-01-01T00:00:02Z"

ListEventsArgs(cal, start, end) ==
    [NoArgs EXCEPT !.calendarUrl = cal, !.startDate = Some(start), !.endDate = Some(end)]

CreateEventArgs(cal, start, end) ==
    [NoArgs EXCEPT !.calendarUrl = cal, !.summary = Some(<<"s">>),
                   !.startDate = Some(start), !.endDate = Some(end)]

\* The tool calls the model hands to the server.
Requests ==
    {[name |-> "list_calendars", args |-> NoArgs],
     [name |-> "frobnicate", args |-> NoArgs]}
    \cup {[name |-> "list_events", args |-> a] :
            a \in {ListEventsArgs("A/", T0, T2), ListEventsArgs("Z/", T0, T2),
                   ListEventsArgs("A/", "tomorrow", T2)}}
    \cup {[name |-> "create_event", args |-> a] :
            a \in {CreateEventArgs("A/", T1, T2), CreateEventArgs("A/", T1, T1),
                   CreateEventArgs("A/", T2, T1), CreateEventArgs("Z/", T1, T2),
                   CreateEventArgs("A/", T1, "tomorrow")}}
    \cup {[name |-> "update_event", args |-> a] :
            a \in {[NoArgs EXCEPT !.eventUrl = EventUrl, !.summary = Some(<<"n">>)],
                   [NoArgs EXCEPT !.eventUrl = EventUrl, !.startDate = Some("tomorrow")],
                   [NoArgs EXCEPT !.eventUrl = EventUrl, !.startDate = Some("")],
                   [NoArgs EXCEPT !.eventUrl = GhostUrl, !.summary = Some(<<"n">>)],
                   [NoArgs EXCEPT !.eventUrl = BareUrl, !.summary = Some(<<"n">>),
                                  !.description = Some(<<"n">>), !.location = Some(<<"n">>),
                                  !.startDate = Some(T1), !.endDate = Some(T2)],
                   [NoArgs EXCEPT !.eventUrl = BareUrl, !.location = Some(<<"n">>)]}}
    \cup {[name |-> "delete_event", args |-> a] :
            a \in {[NoArgs EXCEPT !.eventUrl = EventUrl, !.etag = 0],
                   [NoArgs EXCEPT !.eventUrl = EventUrl, !.etag = 7]}}

NoRequest == [name |-> "", args |-> NoArgs]
NoLocals == [cals |-> <<>>, idx |-> 0, url |-> <<>>, etag |-> -1, data |-> <<>>, ok |-> TRUE]
NoResult == [isError |-> FALSE, text |-> <<>>, items |-> <<>>]

\* One CalDAV request, as logged in net.
NetCall(call, on) == [call |-> call, on |-> on]

-----------------------------------------------------------------------------
(* The tool-call handler (CallToolRequestSchema).  One action runs the     *)
(* handler from one await to the next: JavaScript runs a handler without   *)
(* interruption between two awaits, and other handlers run while it waits  *)
(* for a CalDAV response.                                                  *)

\* A catch block that builds the error text and leaves out isError.
ErrorResultUnflagged(msg) == [isError |-> FALSE, text |-> <<"Error: ">> \o msg, items |-> <<>>]

\* The catch block: every failure becomes an error result.
ErrorResult(msg) == [isError |-> TRUE, text |-> <<"Error: ">> \o msg, items |-> <<>>]

\* A result of the try block: content only, no isError.
TextResult(text) == [isError |-> FALSE, text |-> text, items |-> <<>>]
ListResult(items) == [isError |-> FALSE, text |-> <<"JSON">>, items |-> items]

\* A failure that no catch block turns into a result: the call stays pending.
ThrowPending(h, msg) ==
    /\ raised' = [raised EXCEPT ![h] = msg]
    /\ pc' = [pc EXCEPT ![h] = "pending"]
    /\ UNCHANGED result

\* throw new Error(msg), or a rejected CalDAV promise, inside the try block.
Throw(h, msg) ==
    /\ raised' = [raised EXCEPT ![h] = msg]
    /\ result' = [result EXCEPT ![h] = ErrorResult(msg)]
    /\ pc' = [pc EXCEPT ![h] = "done"]

\* return { content: [...] }
Return(h, res) ==
    /\ result' = [result EXCEPT ![h] = res]
    /\ pc' = [pc EXCEPT ![h] = "done"]
    /\ UNCHANGED raised

\* Issue a CalDAV request and suspend at its await.
Issue(h, call, on, at) ==
    /\ net' = [net EXCEPT ![h] = Append(@, NetCall(call, on))]
    /\ pc' = [pc EXCEPT ![h] = at]
    /\ UNCHANGED <<result, raised>>

\* A rejected promise that is swallowed: the handler goes on as if
\* initializeClient had returned.
RejectSwallowed(h, msg) ==
    /\ faults < MaxFaults
    /\ faults' = faults + 1
    /\ pc' = [pc EXCEPT ![h] = "ready"]
    /\ UNCHANGED <<result, raised>>

\* The environment fails the pending CalDAV request: its promise rejects.
Reject(h, msg) ==
    /\ faults < MaxFaults
    /\ faults' = faults + 1
    /\ Throw(h, msg)

\* A handler at "ready" resumes from `await initializeClient()` in a microtask:
\* the event loop runs it before it delivers another message or response.
Quiescent == \A h \in Handlers : pc[h] # "ready"

\* The invocations are numbered; a tool call that arrives is the invocation
\* with the least number not in use.
Slot(h) == CHOOSE i \in 1..2 : <<"h1", "h2">>[i] = h

FirstIdle(h) == \A g \in Handlers : pc[g] = "idle" => Slot(h) <= Slot(g)

\* if (!davClient): whether initializeClient starts a handshake.
NeedsHandshake(client) == client = NULL

\* A tool call arrives; the handler runs into initializeClient, which issues
\* createDAVClient when no client handle is cached and returns at once
\* otherwise.
Receive(h, r) ==
    /\ proc.phase = "serving"
    /\ pc[h] = "idle"
    /\ FirstIdle(h)
    /\ Quiescent
    /\ started < MaxCalls
    /\ started' = started + 1
    /\ req' = [req EXCEPT ![h] = r]
    /\ IF NeedsHandshake(davClient)
       THEN /\ handshakes' = handshakes + 1
            /\ Issue(h, "createDAVClient", <<>>, "awaitClient")
       ELSE /\ pc' = [pc EXCEPT ![h] = "ready"]
            /\ UNCHANGED <<handshakes, net, result, raised>>
    /\ UNCHANGED <<patchVars, bootVars, davClient, calendars, store, nextEtag, now, loc, faults>>

\* createDAVClient resolves: davClient is assigned and fetchCalendars issued.
ClientCreated(h) ==
    /\ pc[h] = "awaitClient"
    /\ Quiescent
    /\ davClient' = CLIENT
    /\ Issue(h, "fetchCalendars", <<>>, "awaitCalendars")
    /\ UNCHANGED <<patchVars, bootVars, calendars, store, nextEtag, now, req, loc, handshakes,
                   started, faults>>

\* createDAVClient rejects (credentials refused, server unreachable).
ClientRejected(h) ==
    /\ pc[h] = "awaitClient"
    /\ Quiescent
    /\ Reject(h, <<"Invalid credentials">>)
    /\ UNCHANGED <<patchVars, bootVars, davClient, calendars, store, nextEtag, now, req, loc, net, handshakes,
                   started>>

\* fetchCalendars resolves: calendars is assigned, initializeClient returns.
CalendarsFetched(h) ==
    /\ pc[h] = "awaitCalendars"
    /\ Quiescent
    /\ calendars' = ServerCalendars
    /\ pc' = [pc EXCEPT ![h] = "ready"]
    /\ UNCHANGED <<patchVars, bootVars, davClient, store, nextEtag, now, req, loc, result, raised, net,
                   handshakes, started, faults>>

\* fetchCalendars rejects.
CalendarsFailed(h) ==
    /\ pc[h] = "awaitCalendars"
    /\ Quiescent
    /\ Reject(h, <<"fetchCalendars failed">>)
    /\ UNCHANGED <<patchVars, bootVars, davClient, calendars, store, nextEtag, now, req, loc, net, handshakes,
                   started>>

\* A lookup that falls back to the first calendar when no url matches.
FindCalendarOrFirst(cals, url) ==
    LET hits == {i \in 1..Len(cals) : cals[i].url = url}
    IN  IF hits # {} THEN CHOOSE i \in hits : \A i2 \in hits : i <= i2
        ELSE IF cals = <<>> THEN 0 ELSE 1

\* calendars.find((cal) => cal.url === calendarUrl): its index, 0 if none.
FindCalendar(cals, url) ==
    LET hits == {i \in 1..Len(cals) : cals[i].url = url}
    IN  IF hits = {} THEN 0 ELSE CHOOSE i \in hits : \A i2 \in hits : i <= i2

\* new Date(arg).getTime(); new Date(undefined) is an invalid date.
DateOf(o) == IF IsPresent(o) THEN ParseDate(ValueOf(o)) ELSE NaN

DateText(o) == IF IsPresent(o) THEN ValueOf(o) ELSE "undefined"

\* case "list_calendars"
ListCalendars(h) ==
    /\ pc[h] = "ready"
    /\ req[h].name = "list_calendars"
    /\ Return(h, ListResult(calendars))
    /\ UNCHANGED <<patchVars, bootVars, davClient, calendars, store, nextEtag, now, req, loc, net, handshakes,
                   started, faults>>

\* The checks of list_events and create_event before their CalDAV request:
\* the message of the first check that fails, NoError if all pass.
ArgumentError(name, args, cals) ==
    IF FindCalendar(cals, args.calendarUrl) = 0
    THEN <<"Calendar not found: ", args.calendarUrl>>
    ELSE IF DateOf(args.startDate) = NaN
    THEN <<"Invalid start date: ", DateText(args.startDate)>>
    ELSE IF DateOf(args.endDate) = NaN
    THEN <<"Invalid end date: ", DateText(args.endDate)>>
    ELSE IF name = "create_event" /\ DateOf(args.endDate) <= DateOf(args.startDate)
    THEN <<"End date must be after start date">>
    ELSE NoError

\* case "list_events", up to fetchCalendarObjects({calendar, timeRange})
ListEvents(h) ==
    /\ pc[h] = "ready"
    /\ req[h].name = "list_events"
    /\ LET err == ArgumentError("list_events", req[h].args, calendars)
       IN  IF err # NoError
           THEN Throw(h, err) /\ UNCHANGED <<net, loc>>
           ELSE /\ Issue(h, "fetchCalendarObjects(timeRange)",
                         <<req[h].args.calendarUrl>>, "awaitEvents")
                /\ loc' = [loc EXCEPT ![h].url = <<req[h].args.calendarUrl>>]
    /\ UNCHANGED <<patchVars, bootVars, davClient, calendars, store, nextEtag, now, req, handshakes, started,
                   faults>>

\* The ranged fetch resolves; the objects are returned as url, etag, data.
\* (Which objects lie in the time range is the server's decision; the model
\* returns the calendar's objects.)
EventsFetched(h) ==
    /\ pc[h] = "awaitEvents"
    /\ Quiescent
    /\ Return(h, ListResult(SetToSeq(ObjectsIn(store, loc[h].url[1]))))
    /\ UNCHANGED <<patchVars, bootVars, davClient, calendars, store, nextEtag, now, req, loc, net, handshakes,
                   started, faults>>

EventsFailed(h) ==
    /\ pc[h] = "awaitEvents"
    /\ Quiescent
    /\ Reject(h, <<"fetchCalendarObjects failed">>)
    /\ UNCHANGED <<patchVars, bootVars, davClient, calendars, store, nextEtag, now, req, loc, net, handshakes,
                   started>>

\* The iCalString create_event builds for the arguments a when the clock
\* (Date.now(), new Date()) reads clock.
DraftBody(a, clock) ==
    icalString(Uid(clock), clock, DateOf(a.startDate), DateOf(a.endDate),
               ValueOf(a.summary), a.description, a.location)

\* case "create_event", up to createCalendarObject({calendar, filename, iCalString})
CreateEvent(h) ==
    /\ pc[h] = "ready"
    /\ req[h].name = "create_event"
    /\ LET a == req[h].args
           err == ArgumentError("create_event", a, calendars)
           url == <<a.calendarUrl>> \o Uid(now) \o <<".ics">>
       IN  IF err # NoError
           THEN Throw(h, err) /\ UNCHANGED <<net, loc>>
           ELSE /\ Issue(h, "createCalendarObject", url, "awaitCreate")
                /\ loc' = [loc EXCEPT ![h].url = url, ![h].data = DraftBody(a, now)]
    /\ UNCHANGED <<patchVars, bootVars, davClient, calendars, store, nextEtag, now, req, handshakes, started,
                   faults>>

\* The store answers the PUT (If-None-Match: *): it stores the object unless
\* one exists at the url.  createCalendarObject resolves with the response
\* either way; the handler reads only its url.
ObjectCreated(h) ==
    /\ pc[h] = "awaitCreate"
    /\ Quiescent
    /\ LET url == loc[h].url
           fresh == url \notin DOMAIN store
       IN  /\ store' = IF fresh
                       THEN store @@ (url :> [etag |-> nextEtag, data |-> loc[h].data])
                       ELSE store
           /\ nextEtag' = IF fresh THEN nextEtag + 1 ELSE nextEtag
           /\ loc' = [loc EXCEPT ![h].ok = fresh]
           /\ Return(h, TextResult(<<"Event created successfully: ">>
                                   \o ValueOf(req[h].args.summary) \o <<"URL: ">> \o url))
    /\ UNCHANGED <<patchVars, bootVars, davClient, calendars, now, req, net, handshakes, started, faults>>

CreateFailed(h) ==
    /\ pc[h] = "awaitCreate"
    /\ Quiescent
    /\ Reject(h, <<"createCalendarObject failed">>)
    /\ UNCHANGED <<patchVars, bootVars, davClient, calendars, store, nextEtag, now, req, loc, net, handshakes,
                   started>>

\* A locator loop without its `break`: every calendar is fetched, and
\* existingEvent is what the last calendar's find returned.
LocatorNoBreak(found, idx, n) ==
    IF idx < n THEN "fetch" ELSE IF found THEN "patch" ELSE "fail"

\* The lookup of the first revision (src/index.ts:316-326): the first
\* calendar only.
LocatorFirstOnly(found, idx, n) ==
    IF found THEN "patch" ELSE "fail"

\* The locator loop of update_event after the fetch of calendar idx of n:
\* `if (existingEvent) break`, else the next calendar, else the loop ends
\* with existingEvent undefined.
LocatorVerdict(found, idx, n) ==
    IF found THEN "patch" ELSE IF idx < n THEN "fetch" ELSE "fail"

\* The loop reaches calendar i of cals: fetchCalendarObjects({calendar}), or,
\* past the last calendar, throw new Error(`Event not found: ...`).
LocatorVisit(h, cals, i) ==
    IF i > Len(cals)
    THEN Throw(h, <<"Event not found: ">> \o req[h].args.eventUrl) /\ UNCHANGED <<net, loc>>
    ELSE /\ Issue(h, "fetchCalendarObjects", <<cals[i].url>>, "awaitLocate")
         /\ loc' = [loc EXCEPT ![h].cals = cals, ![h].idx = i]

\* case "update_event", up to the first fetch of the locator loop, which
\* iterates the array that calendars refers to when the loop starts.
UpdateEvent(h) ==
    /\ pc[h] = "ready"
    /\ req[h].name = "update_event"
    /\ LocatorVisit(h, calendars, 1)
    /\ UNCHANGED <<patchVars, bootVars, davClient, calendars, store, nextEtag, now, req, handshakes, started,
                   faults>>

\* A fetch of the locator loop resolves: events.find by url, then break and
\* patch and updateCalendarObject, or the next calendar, or not found.
LocateFetched(h) ==
    /\ pc[h] = "awaitLocate"
    /\ Quiescent
    /\ LET a == req[h].args
           cals == loc[h].cals
           idx == loc[h].idx
           hits == {e \in ObjectsIn(store, cals[idx].url) : e.url = a.eventUrl}
           verdict == LocatorVerdict(hits # {}, idx, Len(cals))
       IN  IF verdict = "patch"
           THEN LET existingEvent == CHOOSE e \in hits : TRUE
                    patched == ApplyPatch(existingEvent.data, a)
                IN  IF patched.err # NoError
                    THEN Throw(h, patched.err) /\ UNCHANGED <<net, loc>>
                    ELSE /\ Issue(h, "updateCalendarObject", a.eventUrl, "awaitUpdate")
                         /\ loc' = [loc EXCEPT ![h].url = a.eventUrl,
                                               ![h].etag = existingEvent.etag,
                                               ![h].data = patched.text]
           ELSE LocatorVisit(h, cals, IF verdict = "fetch" THEN idx + 1 ELSE Len(cals) + 1)
    /\ UNCHANGED <<patchVars, bootVars, davClient, calendars, store, nextEtag, now, req, handshakes, started,
                   faults>>

LocateFailed(h) ==
    /\ pc[h] = "awaitLocate"
    /\ Quiescent
    /\ Reject(h, <<"fetchCalendarObjects failed">>)
    /\ UNCHANGED <<patchVars, bootVars, davClient, calendars, store, nextEtag, now, req, loc, net, handshakes,
                   started>>

\* What the handler makes of the response of updateCalendarObject and
\* deleteCalendarObject: nothing; a promise that resolves is a success,
\* whatever the status of the response.
ReportsSuccess(responseOk) == TRUE

\* The store answers the PUT (If-Match: etag): it replaces the object when
\* the etag is the object's current one and answers 412 otherwise.
\* updateCalendarObject resolves with the response either way.
ObjectUpdated(h) ==
    /\ pc[h] = "awaitUpdate"
    /\ Quiescent
    /\ LET url == loc[h].url
           ok == EtagMatches(store, url, loc[h].etag)
       IN  /\ store' = IF ok
                       THEN [store EXCEPT ![url] = [etag |-> nextEtag, data |-> loc[h].data]]
                       ELSE store
           /\ nextEtag' = IF ok THEN nextEtag + 1 ELSE nextEtag
           /\ loc' = [loc EXCEPT ![h].ok = ok]
           /\ IF ReportsSuccess(ok)
              THEN Return(h, TextResult(<<"Event updated successfully: ">> \o url))
              ELSE Throw(h, <<"Precondition Failed">>)
    /\ UNCHANGED <<patchVars, bootVars, davClient, calendars, now, req, net, handshakes, started, faults>>

UpdateFailed(h) ==
    /\ pc[h] = "awaitUpdate"
    /\ Quiescent
    /\ Reject(h, <<"updateCalendarObject failed">>)
    /\ UNCHANGED <<patchVars, bootVars, davClient, calendars, store, nextEtag, now, req, loc, net, handshakes,
                   started>>

\* case "delete_event", up to deleteCalendarObject({calendarObject: {url, etag}})
DeleteEvent(h) ==
    /\ pc[h] = "ready"
    /\ req[h].name = "delete_event"
    /\ Issue(h, "deleteCalendarObject", req[h].args.eventUrl, "awaitDelete")
    /\ loc' = [loc EXCEPT ![h].url = req[h].args.eventUrl, ![h].etag = req[h].args.etag]
    /\ UNCHANGED <<patchVars, bootVars, davClient, calendars, store, nextEtag, now, req, handshakes, started,
                   faults>>

\* The store answers the DELETE (If-Match: etag): it removes the object when
\* the etag is the object's current one and answers 412 otherwise.
\* deleteCalendarObject resolves with the response either way.
ObjectDeleted(h) ==
    /\ pc[h] = "awaitDelete"
    /\ Quiescent
    /\ LET url == loc[h].url
           ok == EtagMatches(store, url, loc[h].etag)
       IN  /\ store' = IF ok THEN [u \in DOMAIN store \ {url} |-> store[u]] ELSE store
           /\ loc' = [loc EXCEPT ![h].ok = ok]
           /\ IF ReportsSuccess(ok)
              THEN Return(h, TextResult(<<"Event deleted successfully: ">> \o url))
              ELSE Throw(h, <<"Precondition Failed">>)
    /\ UNCHANGED <<patchVars, bootVars, davClient, calendars, nextEtag, now, req, net, handshakes, started,
                   faults>>

DeleteFailed(h) ==
    /\ pc[h] = "awaitDelete"
    /\ Quiescent
    /\ Reject(h, <<"deleteCalendarObject failed">>)
    /\ UNCHANGED <<patchVars, bootVars, davClient, calendars, store, nextEtag, now, req, loc, net, handshakes,
                   started>>

ToolNames == {"list_calendars", "list_events", "create_event", "update_event", "delete_event"}

\* default: throw new Error(`Unknown tool: ${name}`)
UnknownTool(h) ==
    /\ pc[h] = "ready"
    /\ req[h].name \notin ToolNames
    /\ Throw(h, <<"Unknown tool: ", req[h].name>>)
    /\ UNCHANGED <<patchVars, bootVars, davClient, calendars, store, nextEtag, now, req, loc, net, handshakes,
                   started, faults>>

\* The result has gone to the transport; the invocation and its locals are gone.
Returned(h) ==
    /\ pc[h] = "done"
    /\ pc' = [pc EXCEPT ![h] = "idle"]
    /\ req' = [req EXCEPT ![h] = NoRequest]
    /\ loc' = [loc EXCEPT ![h] = NoLocals]
    /\ result' = [result EXCEPT ![h] = NoResult]
    /\ raised' = [raised EXCEPT ![h] = NoError]
    /\ net' = [net EXCEPT ![h] = <<>>]
    /\ UNCHANGED <<patchVars, bootVars, davClient, calendars, store, nextEtag, now, handshakes, started, faults>>

\* The clock advances.  Date.now() is read by create_event alone (for the
\* uid and DTSTAMP), so the clock is let advance when a create_event call is
\* about to read it: an advance at any other moment shows in no other way.
Tick ==
    /\ now < MaxClock
    /\ \E h \in Handlers : pc[h] = "ready" /\ req[h].name = "create_event"
    /\ now' = now + 1
    /\ UNCHANGED <<patchVars, bootVars, davClient, calendars, store, nextEtag, pc, req, loc, result, raised,
                   net, handshakes, started, faults>>

-----------------------------------------------------------------------------
(* Process start-up (the block that runs when the module is the script).   *)

\* z.string().min(16, ...): the least length of the app password.
MinPasswordLength == 16

\* A text of n characters.
Chars(n) == [i \in 1..n |-> "x"]

\* What FASTMAIL_USERNAME may hold: unset, empty, texts that are no email
\* addresses, and an email address.
Usernames ==
    {Absent, Some(<<>>), Some(<<"user">>), Some(<<"user", "@", "fastmail">>),
     Some(<<"@", "fastmail", ".", "com">>), Some(<<"user", "@", "fastmail", ".", "com">>)}

\* What FASTMAIL_APP_PASSWORD may hold: unset, empty, and texts of one
\* character less than, exactly, and one more than the least length.
Passwords ==
    {Absent, Some(<<>>), Some(Chars(MinPasswordLength - 1)), Some(Chars(MinPasswordLength)),
     Some(Chars(MinPasswordLength + 1))}

\* process.argv[1]
Scripts == {"dist/index.js", "dist/bundle.cjs"}

\* process.argv[1]?.endsWith("index.js")
IsMainScript(script) == script = "dist/index.js"

\* process.env.NAME || ""
EnvOrEmpty(o) == IF IsPresent(o) THEN ValueOf(o) ELSE <<>>

\* z.string().email(): one "@" with a local part before it and, behind it,
\* a domain of labels joined by "." that ends with a top-level label.
IsEmail(u) ==
    \E i \in 2..Len(u) :
        /\ u[i] = "@"
        /\ \A j \in 1..Len(u) : u[j] = "@" => j = i
        /\ u[1] # "."
        /\ Len(u) >= i + 3
        /\ u[i + 1] # "." /\ u[Len(u)] # "."
        /\ \E j \in (i + 2)..(Len(u) - 1) : u[j] = "."

\* A schema that accepts every configuration.
NoConfigIssues(config) == {}

\* configSchema.parse(config): the issues it throws with, none if it returns.
ConfigIssues(config) ==
    (IF Len(config.username) < 1 THEN {"Username is required"} ELSE {})
    \cup (IF ~IsEmail(config.username) THEN {"Must be a valid email address"} ELSE {})
    \cup (IF Len(config.appPassword) < MinPasswordLength
          THEN {"App password must be at least 16 characters"} ELSE {})

Running(phase) == [phase |-> phase, exited |-> FALSE, exitCode |-> 0, stderr |-> <<>>]

\* process.exit(code), or an exception no one catches, after the text went to
\* the error stream.
Exited(phase, code, text) ==
    [phase |-> phase, exited |-> TRUE, exitCode |-> code, stderr |-> <<text>>]

\* The module is evaluated.  When it is not the script (it was imported),
\* nothing runs.  When it is, the two variables are read and, if one is
\* missing or empty, the process prints the diagnostic and exits with 1.
Main ==
    /\ proc.phase = "main"
    /\ LET config == [username |-> EnvOrEmpty(env.username),
                      appPassword |-> EnvOrEmpty(env.appPassword)]
       IN  proc' = IF ~IsMainScript(env.script) THEN Running("imported")
                   ELSE IF config.username = <<>> \/ config.appPassword = <<>>
                   THEN Exited("exited", 1, "Error: FASTMAIL_USERNAME and FASTMAIL_APP_PASSWORD environment variables are required.")
                   ELSE Running("parse")
    /\ UNCHANGED <<sysVars, patchVars, env>>

\* configSchema.parse(config): it throws a ZodError, which nothing catches,
\* or returns, and then the server is created and connect is called.
Parse ==
    /\ proc.phase = "parse"
    /\ LET config == [username |-> EnvOrEmpty(env.username),
                      appPassword |-> EnvOrEmpty(env.appPassword)]
       IN  proc' = IF ConfigIssues(config) # {}
                   THEN Exited("threw", 1, "ZodError")
                   ELSE Running("connect")
    /\ UNCHANGED <<sysVars, patchVars, env>>

\* server.connect(transport) resolves: the server serves tool calls.
Connected ==
    /\ proc.phase = "connect"
    /\ proc' = [Running("serving") EXCEPT
                   !.stderr = <<"Fastmail Calendar MCP server running on stdio">>]
    /\ UNCHANGED <<sysVars, patchVars, env>>

\* server.connect(transport) rejects.
ConnectFailed ==
    /\ proc.phase = "connect"
    /\ proc' = Exited("exited", 1, "Fatal error:")
    /\ UNCHANGED <<sysVars, patchVars, env>>

StartNext == Main \/ Parse \/ Connected \/ ConnectFailed

\* The state tool calls are served in.
Booted ==
    /\ env = [script |-> "dist/index.js",
              username |-> Some(<<"user", "@", "fastmail", ".", "com">>),
              appPassword |-> Some(Chars(MinPasswordLength))]
    /\ proc = [Running("serving") EXCEPT
                  !.stderr = <<"Fastmail Calendar MCP server running on stdio">>]

-----------------------------------------------------------------------------
(* Specifications. *)

\* createServer: no client, an empty calendar list, no call in flight.
SysState(objects) ==
    /\ davClient = NULL
    /\ calendars = <<>>
    /\ store = objects
    /\ nextEtag = 1
    /\ now = 0
    /\ pc = [h \in Handlers |-> "idle"]
    /\ req = [h \in Handlers |-> NoRequest]
    /\ loc = [h \in Handlers |-> NoLocals]
    /\ result = [h \in Handlers |-> NoResult]
    /\ raised = [h \in Handlers |-> NoError]
    /\ net = [h \in Handlers |-> <<>>]
    /\ handshakes = 0
    /\ started = 0
    /\ faults = 0

\* The server as the tool calls find it: constructed, and connected by a
\* process that was started with a valid configuration.
SysStart(objects) == SysState(objects) /\ Booted

\* The account holds an event create_event wrote, in its third calendar, and
\* an event of another client, without SUMMARY, DTSTART: and DTEND: lines, in
\* its first.
SysInit ==
    SysStart((EventUrl :> [etag |-> 0, data |-> BodyFull])
             @@ (BareUrl :> [etag |-> 0, data |-> BodyBare]))

Init == SysInit /\ PatchOff

Next ==
    \/ \E h \in Handlers :
        \/ \E r \in Requests : Receive(h, r)
        \/ ClientCreated(h)
        \/ ClientRejected(h)
        \/ CalendarsFetched(h)
        \/ CalendarsFailed(h)
        \/ ListCalendars(h)
        \/ ListEvents(h)
        \/ EventsFetched(h)
        \/ EventsFailed(h)
        \/ CreateEvent(h)
        \/ ObjectCreated(h)
        \/ CreateFailed(h)
        \/ UpdateEvent(h)
        \/ LocateFetched(h)
        \/ LocateFailed(h)
        \/ ObjectUpdated(h)
        \/ UpdateFailed(h)
        \/ DeleteEvent(h)
        \/ ObjectDeleted(h)
        \/ DeleteFailed(h)
        \/ UnknownTool(h)
        \/ Returned(h)
    \/ Tick

Spec == Init /\ [][Next]_vars

\* The steps of one invocation after the message arrived: the handler's own
\* code, and the CalDAV responses (a success or a failure) it awaits.
Progress(h) ==
    \/ ClientCreated(h)
    \/ ClientRejected(h)
    \/ CalendarsFetched(h)
    \/ CalendarsFailed(h)
    \/ ListCalendars(h)
    \/ ListEvents(h)
    \/ EventsFetched(h)
    \/ EventsFailed(h)
    \/ CreateEvent(h)
    \/ ObjectCreated(h)
    \/ CreateFailed(h)
    \/ UpdateEvent(h)
    \/ LocateFetched(h)
    \/ LocateFailed(h)
    \/ ObjectUpdated(h)
    \/ UpdateFailed(h)
    \/ DeleteEvent(h)
    \/ ObjectDeleted(h)
    \/ DeleteFailed(h)
    \/ UnknownTool(h)

\* One tool call of each kind, and update_event for an event of the third
\* calendar and for one that is in no calendar.  The clock stands: no step
\* of a call waits for it.
LiveRequests ==
    {[name |-> "list_calendars", args |-> NoArgs],
     [name |-> "frobnicate", args |-> NoArgs],
     [name |-> "list_events", args |-> ListEventsArgs("A/", T0, T2)],
     [name |-> "create_event", args |-> CreateEventArgs("A/", T1, T2)],
     [name |-> "update_event",
      args |-> [NoArgs EXCEPT !.eventUrl = EventUrl, !.summary = Some(<<"n">>)]],
     [name |-> "update_event",
      args |-> [NoArgs EXCEPT !.eventUrl = GhostUrl, !.summary = Some(<<"n">>)]],
     [name |-> "delete_event", args |-> [NoArgs EXCEPT !.eventUrl = EventUrl, !.etag = 0]]}

LiveNext ==
    \/ \E h \in Handlers :
        \/ \E r \in LiveRequests : Receive(h, r)
        \/ Progress(h)
        \/ Returned(h)

\* The server under an event loop that runs every continuation that is
\* ready, and a CalDAV server that answers every request it was sent, with a
\* response or with a failure.
LiveSpec == Init /\ [][LiveNext]_vars /\ \A h \in Handlers : WF_vars(Progress(h))

\* The patch step alone, on every body and patch of the harness.
PatchInit ==
    /\ SysStart(<<>>)
    /\ pStage = "input"
    /\ pBody \in Bodies
    /\ pPatch \in Patches
    /\ pOnce = NoOutcome
    /\ pTwice = NoOutcome

PatchSpec == PatchInit /\ [][PatchNext]_vars

\* The drafts handed to create_event: every combination of the text values
\* with start and end dates, of which the checks of create_event accept those
\* with parseable dates and the end after the start.
DraftArgs(d) ==
    [NoArgs EXCEPT !.calendarUrl = "A/", !.summary = d.summary,
                   !.description = d.description, !.location = d.location,
                   !.startDate = d.startDate, !.endDate = d.endDate]

Drafts ==
    {d \in [summary : TextValues \ {Absent}, description : TextValues,
            location : TextValues, startDate : {Some(T0), Some(T1)},
            endDate : {Some(T1), Some("1970-01-01T00:00:01.500Z"), Some(T2),
                       Some("tomorrow"), Some("+010000-01-01T00:00:00Z")}] :
        ArgumentError("create_event", DraftArgs(d), ServerCalendars) = NoError}

\* create_event builds the body of an accepted draft.
DraftBuilt ==
    /\ pStage = "draft"
    /\ pBody' = DraftBody(DraftArgs(pPatch), now)
    /\ pStage' = "built"
    /\ UNCHANGED <<sysVars, bootVars, pPatch, pOnce, pTwice>>

DraftInit ==
    /\ SysStart(<<>>)
    /\ pStage = "draft"
    /\ pPatch \in Drafts
    /\ pBody = <<>>
    /\ pOnce = NoOutcome
    /\ pTwice = NoOutcome

\* The body construction of create_event alone, on every accepted draft.
DraftSpec == DraftInit /\ [][DraftBuilt]_vars

\* The process is started with any script name and environment.
StartInit ==
    /\ SysState(<<>>)
    /\ PatchOff
    /\ env \in [script : Scripts, username : Usernames, appPassword : Passwords]
    /\ proc = Running("main")

\* The start-up of the process alone.
StartSpec == StartInit /\ [][StartNext]_vars

-----------------------------------------------------------------------------
(* Properties. *)

Issued(h, call) == \E i \in 1..Len(net[h]) : net[h][i].call = call

IsLocatorFetch(c) == c.call = "fetchCalendarObjects"

\* The unfiltered fetches a handler has issued, in order.
LocatorFetches(h) == SelectSeq(net[h], IsLocatorFetch)

\* The messages of the failures the environment injects.
RemoteFailures ==
    {<<"Invalid credentials">>, <<"fetchCalendars failed">>,
     <<"fetchCalendarObjects failed">>, <<"createCalendarObject failed">>,
     <<"updateCalendarObject failed">>, <<"deleteCalendarObject failed">>}

\* The operation body of a handler has started (the switch was entered).
Dispatched(h) == pc[h] \in {"awaitEvents", "awaitCreate", "awaitLocate", "awaitUpdate",
                            "awaitDelete", "done"} /\ raised[h] \notin RemoteFailures

\* C1: two tool calls that both start before the session is established share
\* one authentication handshake: there are never two createDAVClient calls
\* in flight.
C1_SingleHandshake ==
    \A g, h \in Handlers : (pc[g] = "awaitClient" /\ pc[h] = "awaitClient") => g = h

\* C2: a tool call that starts while another call's bootstrap is in flight
\* waits for it: no handler runs its operation while the calendar list is
\* still the initial empty one and another handler awaits fetchCalendars.
C2_WaitsForBootstrap ==
    \A g, h \in Handlers :
        (g # h /\ pc[g] = "awaitCalendars" /\ calendars = <<>>) => ~Dispatched(h)

\* C3: the handler always returns a result; the result is the error result
\* "Error: <message>" with isError set exactly when a failure was raised while
\* handling the call, and a result returned by the try block has no error flag.
C3_ErrorEnvelope ==
    \A h \in Handlers :
        IF pc[h] = "done"
        THEN /\ result[h] # NoResult
             /\ result[h].isError <=> raised[h] # NoError
             /\ raised[h] # NoError => result[h].text = <<"Error: ">> \o raised[h]
        ELSE result[h] = NoResult /\ raised[h] = NoError

\* C3 witness: an unknown operation name has produced an error result, and
\* another call a successful one.
C3_Witness ==
    \E g, h \in Handlers :
        /\ pc[g] = "done" /\ req[g].name = "frobnicate" /\ result[g].isError
        /\ pc[h] = "done" /\ ~result[h].isError

\* C4: update_event fetches the cached calendars in their enumeration order,
\* one unfiltered fetch per calendar, and never one past the calendar that
\* holds the event; updateCalendarObject follows the fetch of that calendar
\* and carries the event's url.
C4_LocatorOrder ==
    \A h \in Handlers :
        req[h].name = "update_event" =>
            LET f == LocatorFetches(h)
                cals == loc[h].cals
                url == req[h].args.eventUrl
                k == FindCalendar(cals, CalendarOf(url))
            IN  /\ Len(f) <= Len(cals)
                /\ \A i \in 1..Len(f) : f[i].on = <<cals[i].url>>
                /\ url \in DOMAIN store => Len(f) <= k
                /\ Issued(h, "updateCalendarObject") =>
                       /\ Len(f) = k
                       /\ net[h][Len(net[h])] = NetCall("updateCalendarObject", url)
                       /\ loc[h].url = url

\* C4 witness: an update of the event in calendar C has returned after the
\* fetches of A, B and C and the write.
C4_Witness ==
    \E h \in Handlers :
        /\ pc[h] = "done" /\ req[h].name = "update_event" /\ ~result[h].isError
        /\ LocatorFetches(h) = <<NetCall("fetchCalendarObjects", <<"A/">>),
                                 NetCall("fetchCalendarObjects", <<"B/">>),
                                 NetCall("fetchCalendarObjects", <<"C/">>)>>
        /\ Issued(h, "updateCalendarObject")

\* C5: when no calendar holds the event, update_event never issues
\* updateCalendarObject, fetches the cached calendars in order and each at
\* most once, and, unless a CalDAV request of the call was failed by the
\* environment, has fetched every one of them exactly once when it returns
\* the error "Event not found: <eventUrl>" (no fetch at all for an empty list).
C5_NotFound ==
    /\ GhostUrl \notin DOMAIN store
    /\ \A h \in Handlers :
        (req[h].name = "update_event" /\ req[h].args.eventUrl = GhostUrl) =>
            LET f == LocatorFetches(h)
                cals == loc[h].cals
            IN  /\ ~Issued(h, "updateCalendarObject")
                /\ Len(f) <= Len(cals)
                /\ \A i \in 1..Len(f) : f[i].on = <<cals[i].url>>
                /\ (pc[h] = "done" /\ raised[h] \notin RemoteFailures) =>
                       /\ Len(f) = Len(cals)
                       /\ result[h] = ErrorResult(<<"Event not found: ">> \o GhostUrl)

\* C5 witness: two update_event calls for an event no calendar holds have
\* returned "Event not found", one after a fetch of each of the four cached
\* calendars, one without any fetch (its calendar list was empty).
C5_Witness ==
    \E g, h \in Handlers :
        /\ pc[g] = "done" /\ req[g].args.eventUrl = GhostUrl
        /\ Len(LocatorFetches(g)) = Len(ServerCalendars)
        /\ result[g] = ErrorResult(<<"Event not found: ">> \o GhostUrl)
        /\ pc[h] = "done" /\ req[h].args.eventUrl = GhostUrl
        /\ net[h] = <<>>
        /\ result[h] = ErrorResult(<<"Event not found: ">> \o GhostUrl)

\* The lines of a text: each ends with its "LF"; a rest without one is the
\* last line.
RECURSIVE Lines(_)
Lines(text) ==
    IF text = <<>> THEN <<>>
    ELSE LET stops == {j \in 1..Len(text) : text[j] = LF}
         IN  IF stops = {} THEN <<text>>
             ELSE LET j == CHOOSE s \in stops : \A s2 \in stops : s <= s2
                  IN  <<SubText(text, 1, j)>> \o Lines(SubText(text, j + 1, Len(text)))

\* The property prefixes of the fields a patch supplies.
SuppliedKeys(patch) ==
    {k \in {"SUMMARY:", "DESCRIPTION:", "LOCATION:", "DTSTART:", "DTEND:"} :
        \/ k = "SUMMARY:" /\ IsPresent(patch.summary)
        \/ k = "DESCRIPTION:" /\ IsPresent(patch.description)
        \/ k = "LOCATION:" /\ IsPresent(patch.location)
        \/ k = "DTSTART:" /\ IsPresent(patch.startDate)
        \/ k = "DTEND:" /\ IsPresent(patch.endDate)}

\* The lines that are not the property line of a supplied field.
UntouchedLines(text, patch) ==
    SelectSeq(Lines(text), LAMBDA l : l[1] \notin SuppliedKeys(patch))

\* a occurs in b, in b's order.
RECURSIVE IsSubsequence(_, _)
IsSubsequence(a, b) ==
    IF a = <<>> THEN TRUE
    ELSE IF b = <<>> THEN FALSE
    ELSE IF Head(a) = Head(b) THEN IsSubsequence(Tail(a), Tail(b))
    ELSE IsSubsequence(a, Tail(b))

\* C6: the patch step is idempotent: applied to its own output, a patch with
\* parseable dates yields that output again.
C6_PatchIdempotent ==
    pStage = "twice" => (pTwice.err = NoError /\ pTwice.text = pOnce.text)

\* C7: every line of the body that is not the property line of a supplied
\* field stands in the patched body unchanged, text and line terminator, and
\* in the same relative order.
C7_UntouchedLinesKept ==
    (pStage = "once" /\ pOnce.err = NoError) =>
        IsSubsequence(UntouchedLines(pBody, pPatch), Lines(pOnce.text))

\* C8: when the store rejects deleteCalendarObject because the supplied etag
\* is not the object's current one, delete_event returns an error result, not
\* the confirmation, and the object stays in the store.
C8_RejectedDeleteIsError ==
    [][\A h \in Handlers :
          (/\ pc[h] = "awaitDelete" /\ pc'[h] = "done"
           /\ loc[h].url \in DOMAIN store
           /\ store[loc[h].url].etag # loc[h].etag
           /\ raised'[h] \notin RemoteFailures)
          => (/\ result'[h].isError
              /\ result'[h].text # <<"Event deleted successfully: ">> \o loc[h].url
              /\ store' = store)]_vars

\* Both dates of the call parse and the end is not after the start.
EndNotAfterStart(args) ==
    /\ DateOf(args.startDate) # NaN
    /\ DateOf(args.endDate) # NaN
    /\ DateOf(args.endDate) <= DateOf(args.startDate)

\* C9: a create_event whose end is not strictly after its start returns the
\* error "End date must be after start date" and has issued no network call
\* (for a call whose calendar was found and that no failure of the
\* environment ended before).
C9_BadRangeNoNetwork ==
    \A h \in Handlers :
        (/\ pc[h] = "done" /\ req[h].name = "create_event"
         /\ EndNotAfterStart(req[h].args)
         /\ raised[h] # <<"Calendar not found: ", req[h].args.calendarUrl>>
         /\ raised[h] \notin RemoteFailures)
        => (/\ result[h] = ErrorResult(<<"End date must be after start date">>)
            /\ net[h] = <<>>)

\* The failure is one of the argument checks.
IsValidationError(msg) ==
    /\ msg # NoError
    /\ msg[1] \in {"Calendar not found: ", "Invalid start date: ", "Invalid end date: ",
                   "End date must be after start date"}

\* C10: a call that raises a validation error has issued no request to the
\* CalDAV capability before, whichever operation it is and also when it is
\* the first call of the process.
C10_ValidationBeforeNetwork ==
    \A h \in Handlers : IsValidationError(raised[h]) => net[h] = <<>>

\* The date argument is supplied and new Date() of it is an invalid date.
Unparseable(o) == IsPresent(o) /\ ParseDate(ValueOf(o)) = NaN

\* The failure ended the call before its dates were looked at.
EarlierFailure(msg) ==
    \/ msg \in RemoteFailures
    \/ msg # NoError /\ msg[1] \in {"Calendar not found: ", "Event not found: "}

\* C11: a list_events, create_event or update_event call with a supplied
\* startDate or endDate that is not a valid date never issues its ranged
\* fetch, createCalendarObject or updateCalendarObject, and, unless an earlier
\* failure ended it, returns the error that names the first offending field.
C11_InvalidDateNamed ==
    \A h \in Handlers :
        LET a == req[h].args
        IN  (/\ req[h].name \in {"list_events", "create_event", "update_event"}
             /\ (Unparseable(a.startDate) \/ Unparseable(a.endDate)))
            => /\ ~Issued(h, "fetchCalendarObjects(timeRange)")
               /\ ~Issued(h, "createCalendarObject")
               /\ ~Issued(h, "updateCalendarObject")
               /\ (pc[h] = "done" /\ ~EarlierFailure(raised[h])) =>
                      result[h] = ErrorResult(
                          IF Unparseable(a.startDate)
                          THEN <<"Invalid start date: ", ValueOf(a.startDate)>>
                          ELSE <<"Invalid end date: ", ValueOf(a.endDate)>>)

\* No calendar of the cached list has the url.
UnknownCalendar(url) == \A i \in 1..Len(calendars) : calendars[i].url # url

\* C12: list_events and create_event with a calendarUrl that is the url of no
\* cached calendar never issue fetchCalendarObjects or createCalendarObject
\* and, unless the bootstrap of the call failed, return the error
\* "Calendar not found: <calendarUrl>".
C12_CalendarNotFound ==
    \A h \in Handlers :
        (req[h].name \in {"list_events", "create_event"}
         /\ UnknownCalendar(req[h].args.calendarUrl))
        => /\ ~Issued(h, "fetchCalendarObjects(timeRange)")
           /\ ~Issued(h, "fetchCalendarObjects")
           /\ ~Issued(h, "createCalendarObject")
           /\ (pc[h] = "done" /\ raised[h] \notin RemoteFailures) =>
                  result[h] = ErrorResult(<<"Calendar not found: ", req[h].args.calendarUrl>>)

\* C12 witness: with the calendar list cached, a list_events and a
\* create_event call for the unknown calendar Z/ have both returned
\* "Calendar not found: Z/", the later one without any request.
C12_Witness ==
    \E g, h \in Handlers :
        /\ calendars = ServerCalendars
        /\ pc[g] = "done" /\ req[g].name = "list_events"
        /\ result[g] = ErrorResult(<<"Calendar not found: ", "Z/">>)
        /\ pc[h] = "done" /\ req[h].name = "create_event"
        /\ result[h] = ErrorResult(<<"Calendar not found: ", "Z/">>)
        /\ (net[g] = <<>> \/ net[h] = <<>>)

\* C13: fetchCalendars is invoked at most once in the life of the process
\* (davClient is assigned in the step that issues it, so a step that issues it
\* must find davClient unset); once the calendar list is cached, a tool call
\* that arrives starts no handshake and no fetch, and no step assigns the
\* calendar list or the client handle again.
C13_BootstrapOnce ==
    [][\A h \in Handlers :
          /\ (pc[h] # "awaitCalendars" /\ pc'[h] = "awaitCalendars") => davClient = NULL
          /\ (pc[h] = "awaitCalendars" /\ pc'[h] = "ready") => calendars = <<>>
          /\ calendars # <<>> =>
                 /\ calendars' = calendars
                 /\ davClient' = davClient
                 /\ pc[h] = "idle" => (pc'[h] \in {"idle", "ready"} /\ net'[h] = <<>>)]_vars

\* The lines of a text that begin with the property prefix key.
LinesWith(text, key) == SelectSeq(Lines(text), LAMBDA l : l[1] = key)

\* The property line the patch step writes for a value.
PropertyLine(key, value) == <<key>> \o value \o <<CR, LF>>

\* C14: when the body has a DESCRIPTION line and the patch supplies a
\* description, the patched body has exactly one DESCRIPTION line, that line
\* carries the new description, and the body has as many SUMMARY lines as
\* before.
C14_DescriptionReplaced ==
    (/\ pStage = "once" /\ pOnce.err = NoError
     /\ LinesWith(pBody, "DESCRIPTION:") # <<>>
     /\ IsPresent(pPatch.description))
    => /\ LinesWith(pOnce.text, "DESCRIPTION:")
              = <<PropertyLine("DESCRIPTION:", ValueOf(pPatch.description))>>
       /\ Len(LinesWith(pOnce.text, "SUMMARY:")) = Len(LinesWith(pBody, "SUMMARY:"))

\* The line that follows the first line beginning with key; <<>> if there is
\* no such line or it is the last one.
LineAfter(text, key) ==
    LET lines == Lines(text)
        hits == {i \in 1..Len(lines) : lines[i][1] = key}
    IN  IF hits = {} THEN <<>>
        ELSE LET i == CHOOSE h \in hits : \A h2 \in hits : h <= h2
             IN  IF i = Len(lines) THEN <<>> ELSE lines[i + 1]

\* C15: when the body has a SUMMARY line and no LOCATION line and the patch
\* supplies a location, the patched body has exactly one LOCATION line, and it
\* is the line that follows the SUMMARY line.
C15_LocationInserted ==
    (/\ pStage = "once" /\ pOnce.err = NoError
     /\ LinesWith(pBody, "SUMMARY:") # <<>>
     /\ LinesWith(pBody, "LOCATION:") = <<>>
     /\ IsPresent(pPatch.location))
    => /\ Len(LinesWith(pOnce.text, "LOCATION:")) = 1
       /\ LineAfter(pOnce.text, "SUMMARY:") # <<>>
       /\ LineAfter(pOnce.text, "SUMMARY:")[1] = "LOCATION:"

\* The index of the first line that begins with key, 0 if there is none.
FirstLineIndex(text, key) ==
    LET lines == Lines(text)
        hits == {i \in 1..Len(lines) : lines[i][1] = key}
    IN  IF hits = {} THEN 0 ELSE CHOOSE i \in hits : \A i2 \in hits : i <= i2

\* The body has a SUMMARY line and no DESCRIPTION line, the patch supplies a
\* description, and the patch step has produced a body.
DescriptionInserted ==
    /\ pStage = "once" /\ pOnce.err = NoError
    /\ LinesWith(pBody, "SUMMARY:") # <<>>
    /\ LinesWith(pBody, "DESCRIPTION:") = <<>>
    /\ IsPresent(pPatch.description)

\* The location step finds no "LOCATION:" in the text it is handed and
\* inserts a new line.
LocationInserted ==
    /\ IsPresent(pPatch.location)
    /\ ~Includes(PatchDescription(PatchSummary(pBody, pPatch.summary), pPatch.description),
                 "LOCATION:")

HasLine(text, line) == \E i \in 1..Len(Lines(text)) : Lines(text)[i] = line

\* A text field of the patch did what its presence asks for: present, its
\* property line with the supplied value stands in the patched body; absent,
\* the property's lines are those of the body.
TextFieldHonoured(key, o) ==
    IF IsPresent(o)
    THEN HasLine(pOnce.text, PropertyLine(key, ValueOf(o)))
    ELSE LinesWith(pOnce.text, key) = LinesWith(pBody, key)

\* The same for a date field, whose line carries the formatted instant.
DateFieldHonoured(key, o) ==
    IF IsPresent(o)
    THEN /\ ParseDate(ValueOf(o)) # NaN
         /\ HasLine(pOnce.text, PropertyLine(key, formatICalDate(ParseDate(ValueOf(o)))))
    ELSE LinesWith(pOnce.text, key) = LinesWith(pBody, key)

\* C17: for a body with SUMMARY, DTSTART and DTEND lines and a patch the
\* patch step accepts, every field the patch supplies, the empty string
\* included, is written as its property line, and every field it does not
\* supply leaves its property line as it was.
C17_PresentMeansReplace ==
    (/\ pStage = "once" /\ pOnce.err = NoError
     /\ \A k \in {"SUMMARY:", "DTSTART:", "DTEND:"} : LinesWith(pBody, k) # <<>>)
    => /\ TextFieldHonoured("SUMMARY:", pPatch.summary)
       /\ TextFieldHonoured("DESCRIPTION:", pPatch.description)
       /\ TextFieldHonoured("LOCATION:", pPatch.location)
       /\ DateFieldHonoured("DTSTART:", pPatch.startDate)
       /\ DateFieldHonoured("DTEND:", pPatch.endDate)

\* A line of the body begins with key.
StartsLine(body, key) ==
    \E i \in 1..Len(body) : body[i] = key /\ (i = 1 \/ body[i - 1] = LF)

\* The field is supplied and the body has no line to anchor it: no line of
\* its own, and for a description or location no SUMMARY line either.
LacksAnchor(body, key, o) ==
    /\ IsPresent(o)
    /\ ~StartsLine(body, key)
    /\ key \in {"DESCRIPTION:", "LOCATION:"} => ~StartsLine(body, "SUMMARY:")

\* Every field the call supplies lacks its anchor in the body, and the call
\* supplies one.
AllAnchorsMissing(body, a) ==
    /\ \/ IsPresent(a.summary) \/ IsPresent(a.description) \/ IsPresent(a.location)
       \/ IsPresent(a.startDate) \/ IsPresent(a.endDate)
    /\ IsPresent(a.summary) => LacksAnchor(body, "SUMMARY:", a.summary)
    /\ IsPresent(a.description) => LacksAnchor(body, "DESCRIPTION:", a.description)
    /\ IsPresent(a.location) => LacksAnchor(body, "LOCATION:", a.location)
    /\ IsPresent(a.startDate) => LacksAnchor(body, "DTSTART:", a.startDate)
    /\ IsPresent(a.endDate) => LacksAnchor(body, "DTEND:", a.endDate)

\* C18: an update_event call whose supplied fields (with parseable dates) all
\* lack their anchor line in the stored body raises no error in the patch
\* step, sends the stored text unchanged with updateCalendarObject, and,
\* unless the environment fails a CalDAV request or the event is not found,
\* reports success.
C18_MissingAnchorNoOp ==
    \A h \in Handlers :
        LET a == req[h].args
        IN  (/\ req[h].name = "update_event"
             /\ a.eventUrl \in DOMAIN store
             /\ AllAnchorsMissing(store[a.eventUrl].data, a)
             /\ ~Unparseable(a.startDate) /\ ~Unparseable(a.endDate))
            => /\ ~IsValidationError(raised[h])
               /\ Issued(h, "updateCalendarObject") => loc[h].data = store[a.eventUrl].data
               /\ (pc[h] = "done" /\ ~EarlierFailure(raised[h])) =>
                      /\ Issued(h, "updateCalendarObject")
                      /\ result[h] = TextResult(<<"Event updated successfully: ">> \o a.eventUrl)

\* C18 witness: an update of the event without SUMMARY, DTSTART: and DTEND:
\* lines that supplied all five fields has been written and reported as a
\* success; the stored text is the old one under a new etag.
C18_Witness ==
    \E h \in Handlers :
        /\ pc[h] = "done" /\ req[h].name = "update_event"
        /\ req[h].args.eventUrl = BareUrl
        /\ IsPresent(req[h].args.summary) /\ IsPresent(req[h].args.startDate)
        /\ result[h] = TextResult(<<"Event updated successfully: ">> \o BareUrl)
        /\ store[BareUrl].data = BodyBare
        /\ store[BareUrl].etag # 0

\* C19: when the environment rejects the handshake of a call (the step in
\* which the call leaves its createDAVClient await and the count of failed
\* requests grows), the call ends at once with the error result that carries
\* the failure message; createDAVClient is the only request it has issued, no
\* further handshake is started, and the store is not touched.
C19_AuthFailureReported ==
    [][\A h \in Handlers :
          (pc[h] = "awaitClient" /\ pc'[h] # "awaitClient" /\ faults' # faults)
          => /\ pc'[h] = "done"
             /\ result'[h] = ErrorResult(<<"Invalid credentials">>)
             /\ net'[h] = <<NetCall("createDAVClient", <<>>)>>
             /\ handshakes' = handshakes
             /\ store' = store
             /\ calendars' = calendars]_vars

\* C19 witness: a tool call whose handshake was rejected has returned the
\* error result after its one createDAVClient.
C19_Witness ==
    \E h \in Handlers :
        /\ pc[h] = "done" /\ req[h].name \in ToolNames
        /\ raised[h] = <<"Invalid credentials">>
        /\ result[h] = ErrorResult(<<"Invalid credentials">>)
        /\ net[h] = <<NetCall("createDAVClient", <<>>)>>
        /\ davClient = NULL

\* The text without its last n tokens.
DropLast(text, n) == SubText(text, 1, Len(text) - n)

\* The line is closed by CR LF and holds no other line terminator.
IsCrlfLine(l) ==
    /\ Len(l) >= 2 /\ l[Len(l) - 1] = CR /\ l[Len(l)] = LF
    /\ \A i \in 1..(Len(l) - 2) : ~IsLineTerminator(l[i])

\* The property names of the body create_event is to send for a draft.
DraftLayout(d) ==
    <<"BEGIN:VCALENDAR", "VERSION:2.0", "PRODID:-//Fastmail Calendar MCP//EN",
      "BEGIN:VEVENT", "UID:", "DTSTAMP:", "DTSTART:", "DTEND:", "SUMMARY:">>
    \o (IF IsPresent(d.description) THEN <<"DESCRIPTION:">> ELSE <<>>)
    \o (IF IsPresent(d.location) THEN <<"LOCATION:">> ELSE <<>>)
    \o <<"END:VEVENT", "END:VCALENDAR">>

\* C20: the body built for an accepted draft is the sequence of lines
\* BEGIN:VCALENDAR, VERSION, PRODID, BEGIN:VEVENT, UID, DTSTAMP, DTSTART,
\* DTEND, SUMMARY, DESCRIPTION if and only if supplied, LOCATION if and only
\* if supplied, END:VEVENT, END:VCALENDAR, consecutive lines separated by
\* CR LF (none behind the last), with exactly one SUMMARY line.
C20_CreatedBodyLayout ==
    pStage = "built" =>
        LET lines == Lines(pBody)
            n == Len(lines)
            layout == DraftLayout(pPatch)
        IN  /\ n = Len(layout)
            /\ \A i \in 1..n : lines[i][1] = layout[i]
            /\ \A i \in 1..(n - 1) : IsCrlfLine(lines[i])
            /\ \A i \in 1..Len(lines[n]) : ~IsLineTerminator(lines[n][i])
            /\ Len(LinesWith(pBody, "SUMMARY:")) = 1
            /\ HasLine(pBody, PropertyLine("SUMMARY:", ValueOf(pPatch.summary)))

\* The value of the first line that begins with key: the line without its
\* property name and its CR LF.
LineValue(text, key) ==
    LET l == Lines(text)[FirstLineIndex(text, key)]
    IN  SubText(l, 2, Len(l) - 2)

\* The text has the form YYYYMMDD'T'HHMMSS'Z': a year of four digits, month,
\* day, "T", hour, minute, the two digits of the second, "Z".
IsCompactForm(text) ==
    /\ Len(text) = 9
    /\ text[1] \in {"1970"}
    /\ \A i \in {2, 3, 5, 6} : text[i] \in {"00", "01"}
    /\ text[4] = "T"
    /\ IsDigit(text[7]) /\ IsDigit(text[8])
    /\ text[9] = "Z"

\* The whole second an instant lies in, and its two digits.
SecondOf(ms) == ms \div 1000

SecondDigits(ms) == <<Digit((SecondOf(ms) \div 10) % 10), Digit(SecondOf(ms) % 10)>>

\* C21: formatICalDate writes every valid instant as YYYYMMDD'T'HHMMSS'Z'
\* with the second the instant lies in (the milliseconds are cut off, not
\* rounded), so two instants of one second are written alike; stated of the
\* DTSTART and DTEND values of the body create_event builds.
C21_CompactTimestamp ==
    pStage = "built" =>
        LET start == DateOf(pPatch.startDate)
            end == DateOf(pPatch.endDate)
            dtstart == LineValue(pBody, "DTSTART:")
            dtend == LineValue(pBody, "DTEND:")
        IN  /\ IsCompactForm(dtstart)
            /\ IsCompactForm(dtend)
            /\ <<dtstart[7], dtstart[8]>> = SecondDigits(start)
            /\ <<dtend[7], dtend[8]>> = SecondDigits(end)
            /\ SecondOf(start) = SecondOf(end) => dtstart = dtend

\* The configuration the start-up block reads from the environment.
EnvConfig ==
    [username |-> EnvOrEmpty(env.username), appPassword |-> EnvOrEmpty(env.appPassword)]

SecretAbsent == EnvConfig.username = <<>> \/ EnvConfig.appPassword = <<>>

C23_NoLostUpdate ==
    [][\A h \in Handlers :
          (pc[h] = "awaitUpdate" /\ pc'[h] = "done" /\ raised'[h] \notin RemoteFailures)
          => /\ ~EtagMatches(store, loc[h].url, loc[h].etag) =>
                    (store' = store /\ result'[h].isError)
             /\ result'[h] = TextResult(<<"Event updated successfully: ">> \o loc[h].url) =>
                    (loc[h].url \in DOMAIN store' /\ store'[loc[h].url].data = loc[h].data)]_vars

\* The call has arrived and has not returned its result yet.
Pending(h) == pc[h] \notin {"idle", "done"}

\* C24: every tool call eventually returns a result, provided every CalDAV
\* request it issues is answered or fails.  No call stays pending for ever
\* (there is no retry loop): it is pending only for a while, it ceases to be
\* pending only by returning, and a call that has returned has a result.
\* And the locator loop of update_event never has issued more fetches than
\* the calendar list it iterates has entries, nor more than the cached list
\* has.
C24_EveryCallReturns ==
    /\ [](\A h \in Handlers :
            /\ pc[h] = "done" => result[h] # NoResult
            /\ req[h].name = "update_event" =>
                  /\ Len(LocatorFetches(h)) <= Len(loc[h].cals)
                  /\ Len(LocatorFetches(h)) <= Len(calendars))
    /\ [][\A h \in Handlers : (Pending(h) /\ ~Pending(h)') => pc'[h] = "done"]_vars
    /\ \A h \in Handlers : []<>(~Pending(h))

\* C24 witness: an update_event call whose event is in no calendar has
\* returned after one fetch for each of the cached calendars.
C24_Witness ==
    \E h \in Handlers :
        /\ pc[h] = "done"
        /\ req[h].name = "update_event"
        /\ Len(calendars) > 1
        /\ Len(LocatorFetches(h)) = Len(calendars)
        /\ result[h].isError

IsUpdateWrite(c) == c.call = "updateCalendarObject"

\* The writes of update_event a handler has issued, in order.
UpdateWrites(h) == SelectSeq(net[h], IsUpdateWrite)

\* C25: update_event is all-or-nothing towards the store.  In every step, for
\* every update_event call: it has issued at most one updateCalendarObject;
\* one it has issued is on the requested eventUrl, and no date the call was
\* given is unparseable; the step that issues it is the answer to the fetch
\* of the calendar that holds the event, and the etag it carries is the etag
\* the object has in that answer; and the step in which the call ends with
\* an error that is not the failure of the write itself finds no
\* updateCalendarObject issued and leaves the store as it is.
C25_UpdateAllOrNothing ==
    [][\A h \in Handlers :
          LET a == req'[h].args
          IN  req'[h].name = "update_event" =>
                /\ Len(UpdateWrites(h)') <= 1
                /\ UpdateWrites(h)' # <<>> =>
                      /\ UpdateWrites(h)'[1].on = a.eventUrl
                      /\ loc'[h].url = a.eventUrl
                      /\ ~Unparseable(a.startDate) /\ ~Unparseable(a.endDate)
                /\ (UpdateWrites(h) = <<>> /\ UpdateWrites(h)' # <<>>) =>
                      /\ pc[h] = "awaitLocate"
                      /\ a.eventUrl \in DOMAIN store
                      /\ CalendarOf(a.eventUrl) = loc[h].cals[loc[h].idx].url
                      /\ loc'[h].etag = store[a.eventUrl].etag
                /\ (/\ pc[h] # "done" /\ pc'[h] = "done"
                    /\ result'[h].isError
                    /\ raised'[h] # <<"updateCalendarObject failed">>) =>
                      /\ UpdateWrites(h)' = <<>>
                      /\ store' = store]_vars

\* A handler is inside initializeClient, at one of its two awaits.
BootstrapInFlight == \E h \in Handlers : pc[h] \in {"awaitClient", "awaitCalendars"}

\* C26: whenever the client handle is set and no bootstrap is in flight, the
\* cached calendar list is the list the server's fetchCalendars returns; and
\* a list_calendars call that returns a success returns that list, never an
\* empty one.
C26_CacheMatchesServer ==
    /\ (davClient # NULL /\ ~BootstrapInFlight) => calendars = ServerCalendars
    /\ \A h \in Handlers :
          (pc[h] = "done" /\ req[h].name = "list_calendars" /\ ~result[h].isError)
              => Len(result[h].items) = Len(ServerCalendars)

\* The uid and the filename of the createCalendarObject a handler issued.
CreatedUid(h) == SubText(loc[h].url, 2, Len(loc[h].url) - 1)
CreatedFilename(h) == SubText(loc[h].url, 2, Len(loc[h].url))

\* C27: two create_event calls that have reached createCalendarObject carry
\* different UIDs and different filenames, also when both were handled in
\* the same millisecond.
C27_DistinctUids ==
    \A h, g \in Handlers :
        (/\ h # g
         /\ Issued(h, "createCalendarObject")
         /\ Issued(g, "createCalendarObject"))
            => /\ CreatedUid(h) # CreatedUid(g)
               /\ CreatedFilename(h) # CreatedFilename(g)

\* The bodies of the harness that create_event wrote (DTSTART at 0 s, DTEND
\* at 1 s).
CreatedBodies == {BodyPlain, BodyFull, BodyDescribed, BodyLocated}

\* The DTEND line of the text carries a later second than its DTSTART line.
EndsAfterStart(text) ==
    \E s, e \in 0..2 :
        /\ s < e
        /\ LineValue(text, "DTSTART:") = formatICalDate(1000 * s)
        /\ LineValue(text, "DTEND:") = formatICalDate(1000 * e)

\* C28: every body written to the store has its DTEND strictly after its
\* DTSTART: the body create_event wrote has, and so has the body update_event
\* sends after it patched the start, the end or both of such a body, once and
\* a second time.
C28_EndAfterStart ==
    (/\ pStage \in {"once", "twice"}
     /\ pBody \in CreatedBodies
     /\ pOnce.err = NoError
     /\ ~IsPresent(pPatch.summary) /\ ~IsPresent(pPatch.description)
     /\ ~IsPresent(pPatch.location))
        => /\ EndsAfterStart(pBody)
           /\ EndsAfterStart(pOnce.text)
           /\ pStage = "twice" => EndsAfterStart(pTwice.text)

\* C29: create and update agree on the document.  On the body create_event
\* wrote without description and location, a patch that supplies just these
\* two yields the lines, in their order, of the body create_event writes when
\* it is given them (DESCRIPTION before LOCATION, both behind SUMMARY); and
\* on every body create_event wrote, each of the five fields a patch
\* supplies is written as its property line (none is silently dropped).
C29_CreateUpdateAgree ==
    (pStage = "once" /\ pOnce.err = NoError /\ pBody \in CreatedBodies)
        => /\ (/\ pBody = BodyPlain
               /\ IsPresent(pPatch.description) /\ IsPresent(pPatch.location)
               /\ ~IsPresent(pPatch.summary)
               /\ ~IsPresent(pPatch.startDate) /\ ~IsPresent(pPatch.endDate))
                  => Lines(pOnce.text)
                         = Lines(BodyCreated(pPatch.description, pPatch.location) \o <<CR, LF>>)
           /\ IsPresent(pPatch.summary) =>
                  HasLine(pOnce.text, PropertyLine("SUMMARY:", ValueOf(pPatch.summary)))
           /\ IsPresent(pPatch.description) =>
                  HasLine(pOnce.text, PropertyLine("DESCRIPTION:", ValueOf(pPatch.description)))
           /\ IsPresent(pPatch.location) =>
                  HasLine(pOnce.text, PropertyLine("LOCATION:", ValueOf(pPatch.location)))
           /\ IsPresent(pPatch.startDate) => DateFieldHonoured("DTSTART:", pPatch.startDate)
           /\ IsPresent(pPatch.endDate) => DateFieldHonoured("DTEND:", pPatch.endDate)

\* C30: after the patch step with a non-empty summary s on a body that has a
\* SUMMARY line, the SUMMARY line of the patched body is "SUMMARY:" followed
\* by s and the line end, for every text s and whichever other fields the
\* patch supplies.
C30_SummaryExact ==
    (/\ pStage = "once" /\ pOnce.err = NoError
     /\ Truthy(pPatch.summary)
     /\ LinesWith(pBody, "SUMMARY:") # <<>>)
        => /\ LinesWith(pOnce.text, "SUMMARY:") # <<>>
           /\ LinesWith(pOnce.text, "SUMMARY:")[1]
                  = PropertyLine("SUMMARY:", ValueOf(pPatch.summary))

=============================================================================
